---- MODULE Spec2Model ----
(***************************************************************************)
(* State-machine model of the document-creation helpers                    *)
(* (src/lib/db/createOperationDB.js: createOneDoc, validatorOneDoc,        *)
(* createManyDocs) and of the signup server action (src/unnamed/part_000:  *)
(* signUpAction, signupSchema, validateSignupFormData).                    *)
(*                                                                         *)
(* JavaScript strings are sequences of one-character strings, so that      *)
(* trim, toUpperCase, length checks and regular expressions are computed   *)
(* character by character.                                                 *)
(***************************************************************************)
EXTENDS Integers, Sequences, FiniteSets, TLC

VARIABLES
  store,        \* the documents the storage collaborator holds, in insertion order
  call,         \* the createOneDoc / createManyDocs call in flight or last finished
  dbPc,         \* position of that call: "idle", "save", "bulk", "returned", "thrown"
  outcome,      \* what the call returned or threw
  storeAtCall,  \* history: the store when the call was made
  users,        \* the user collection
  accounts,     \* the account collection
  analytics,    \* the analytics counters document
  emails,       \* the welcome emails handed to the email collaborator
  runs,         \* every signUpAction run: its position, locals and result
  vForm,        \* a submission given to validateSignupFormData
  vDone,        \* whether validateSignupFormData was applied to vForm
  vResult       \* what it returned

dbVars == <<store, call, dbPc, outcome, storeAtCall>>

signupVars == <<users, accounts, analytics, emails, runs>>

validateVars == <<vForm, vDone, vResult>>

vars == <<store, call, dbPc, outcome, storeAtCall, users, accounts, analytics,
          emails, runs, vForm, vDone, vResult>>

\* ------------------------------------------------------------------ bounds

MaxNameLen == 3
MaxKeys == 2
MaxBatch == 2
MaxDocs == 2

\* ------------------------------------------------------------------ strings

Range(s) == {s[i] : i \in 1..Len(s)}

SeqsUpTo(S, n) == UNION {[1..k -> S] : k \in 0..n}

IsWhitespace(c) == c = " "

RECURSIVE trimStart(_)
trimStart(s) ==
  IF s # <<>> /\ IsWhitespace(Head(s)) THEN trimStart(Tail(s)) ELSE s

RECURSIVE trimEnd(_)
trimEnd(s) ==
  IF s # <<>> /\ IsWhitespace(s[Len(s)]) THEN trimEnd(SubSeq(s, 1, Len(s) - 1)) ELSE s

\* String.prototype.trim
trim(s) == trimEnd(trimStart(s))

\* String.prototype.toUpperCase on one character
toUpperCase(c) ==
  CASE c = "a" -> "A"
    [] c = "b" -> "B"
    [] OTHER -> c

\* capitalize of ../utils: the first letter is capitalized, the rest is kept
capitalize(s) ==
  IF s = <<>> THEN s ELSE <<toUpperCase(Head(s))>> \o Tail(s)

\* ------------------------------------------------------------------ JS values

NameChars == {"a", "A", " "}

StrV(s) == [t |-> "string", s |-> s]
NumV == [t |-> "number", s |-> <<>>]
UndefV == [t |-> "undefined", s |-> <<>>]

ModelNameInputs ==
  {StrV(s) : s \in SeqsUpTo(NameChars, MaxNameLen)} \cup {NumV, UndefV}

KeyUniverse == {"_id", "email", "x", "y"}

IsInjective(s) == \A i, j \in 1..Len(s) : s[i] = s[j] => i = j

\* the key lists Object.keys can return: no key twice
KeyLists == {s \in SeqsUpTo(KeyUniverse, MaxKeys) : IsInjective(s)}

ObjV(keys) == [t |-> "object", keys |-> keys]
NullV == [t |-> "null", keys |-> <<>>]
ArrayV == [t |-> "array", keys |-> <<>>]
StringDataV == [t |-> "string", keys |-> <<>>]
UndefDataV == [t |-> "undefined", keys |-> <<>>]

DataInputs ==
  {ObjV(k) : k \in KeyLists} \cup {NullV, ArrayV, StringDataV, UndefDataV}

\* the typeof operator: null and arrays are "object"
TypeOf(v) == IF v.t \in {"null", "array"} THEN "object" ELSE v.t

\* ------------------------------------------------------------------ registry

\* dataModels of ./models: the registered models and their schema.obj
dataModels ==
  (<<"A">> :> [obj |-> <<"email">>, required |-> {"email"}])
  @@ (<<"A", "a">> :> [obj |-> <<"email", "x">>, required |-> {"email"}])

HasModel(name) == name \in DOMAIN dataModels

\* Object.keys(dataModels[name].schema.obj)
SchemaKeys(name) == dataModels[name].obj

\* Model.validate(data, paths): the schema's own rules (required presence)
ModelValidate(name, data) == dataModels[name].required \subseteq Range(data.keys)

\* findOnlyUniqueElements of ../utils as validatorOneDoc calls it: the elements
\* of the first list that are in neither of the other two, in the first list's order
findOnlyUniqueElements(arr, a2, a3) ==
  SelectSeq(arr, LAMBDA k : k \notin (Range(a2) \cup Range(a3)))

\* ------------------------------------------------------------------ errors

Err(kind, extra, allowed) == [kind |-> kind, extra |-> extra, allowed |-> allowed]
NoErr == Err("none", <<>>, <<>>)

\* ------------------------------------------------------------------ validatorOneDoc

Returned(err) == [threw |-> FALSE, ok |-> FALSE, err |-> err, modelName |-> <<>>]
Threw(err) == [threw |-> TRUE, ok |-> FALSE, err |-> err, modelName |-> <<>>]
Valid(name) == [threw |-> FALSE, ok |-> TRUE, err |-> NoErr, modelName |-> name]

\* processName without the trim of line 36
processNameUntrimmed(s) ==
  LET p == capitalize(s) IN <<toUpperCase(p[1])>> \o Tail(p)

\* lines 36-38: capitalize(modelName.trim()), then [0].toUpperCase() + slice(1)
processName(s) ==
  LET p == capitalize(trim(s)) IN <<toUpperCase(p[1])>> \o Tail(p)

\* validatorOneDoc without the check of the keys (lines 57-63 left out)
validatorOneDocKeepsExtraKeys(modelName, data) ==
  IF TypeOf(modelName) # "string" THEN Returned(Err("NotString", <<>>, <<>>))
  ELSE IF capitalize(trim(modelName.s)) = <<>>
    THEN Threw(Err("TypeError", <<>>, <<>>))
  ELSE LET processedModelName == processName(modelName.s) IN
    IF ~HasModel(processedModelName) THEN Returned(Err("NotValidModel", <<>>, <<>>))
    ELSE IF TypeOf(data) # "object" \/ data.t = "null" \/ data.t = "array"
      THEN Returned(Err("NotObject", <<>>, <<>>))
    ELSE IF ModelValidate(processedModelName, data)
      THEN Valid(processedModelName)
    ELSE Returned(Err("ValidationError", <<>>, <<>>))

\* validatorOneDoc with line 44 reduced to typeof data !== "object"
validatorOneDocTypeofOnly(modelName, data) ==
  IF TypeOf(modelName) # "string" THEN Returned(Err("NotString", <<>>, <<>>))
  ELSE IF capitalize(trim(modelName.s)) = <<>>
    THEN Threw(Err("TypeError", <<>>, <<>>))
  ELSE LET processedModelName == processName(modelName.s) IN
    IF ~HasModel(processedModelName) THEN Returned(Err("NotValidModel", <<>>, <<>>))
    ELSE IF TypeOf(data) # "object"
      THEN Returned(Err("NotObject", <<>>, <<>>))
    ELSE LET modelSchemaKeys == SchemaKeys(processedModelName)
             allowed == modelSchemaKeys \o <<"_id">>
             extraKeys == findOnlyUniqueElements(data.keys, allowed, allowed)
         IN IF Len(extraKeys) > 0
              THEN Returned(Err("KeysNotAllowed", extraKeys, modelSchemaKeys))
            ELSE IF ModelValidate(processedModelName, data)
              THEN Valid(processedModelName)
            ELSE Returned(Err("ValidationError", <<>>, <<>>))

validatorOneDoc(modelName, data) ==
  IF TypeOf(modelName) # "string" THEN Returned(Err("NotString", <<>>, <<>>))
  ELSE IF capitalize(trim(modelName.s)) = <<>>
    THEN Threw(Err("TypeError", <<>>, <<>>))    \* undefined.toUpperCase()
  ELSE LET processedModelName == processName(modelName.s) IN
    IF ~HasModel(processedModelName) THEN Returned(Err("NotValidModel", <<>>, <<>>))
    ELSE IF TypeOf(data) # "object" \/ data.t = "null" \/ data.t = "array"
      THEN Returned(Err("NotObject", <<>>, <<>>))
    ELSE LET modelSchemaKeys == SchemaKeys(processedModelName)
             allowed == modelSchemaKeys \o <<"_id">>
             extraKeys == findOnlyUniqueElements(data.keys, allowed, allowed)
         IN IF Len(extraKeys) > 0
              THEN Returned(Err("KeysNotAllowed", extraKeys, modelSchemaKeys))
            ELSE IF ModelValidate(processedModelName, data)
              THEN Valid(processedModelName)
            ELSE Returned(Err("ValidationError", <<>>, <<>>))

\* ------------------------------------------------------------------ createOneDoc

NoCall ==
  [op |-> "none", modelName |-> UndefV, data |-> UndefDataV,
   dataArr |-> <<>>, resolved |-> <<>>]

NoOutcome == [kind |-> "none", err |-> NoErr, ids |-> <<>>]
ThrownOutcome(err) == [kind |-> "thrown", err |-> err, ids |-> <<>>]
ReturnedOutcome(ids) == [kind |-> "returned", err |-> NoErr, ids |-> ids]

CallFinished == dbPc \in {"returned", "thrown"}

\* the identifier the storage collaborator generates for its n-th document
NewId(n) == n

Doc(name, id) == [model |-> name, _id |-> id]

\* lines 16-17: await validatorOneDoc; an Error result (or a rejection) is thrown
\* before any document is constructed. Otherwise the document is constructed
\* (line 20) and doc.save() is awaited.
CreateOneDocCall(modelName, data) ==
  /\ dbPc = "idle"
  /\ Len(store) < MaxDocs
  /\ LET result == validatorOneDoc(modelName, data) IN
       /\ call' = [op |-> "createOneDoc", modelName |-> modelName, data |-> data,
                   dataArr |-> <<>>, resolved |-> result.modelName]
       /\ IF result.ok
            THEN dbPc' = "save" /\ outcome' = NoOutcome
            ELSE dbPc' = "thrown" /\ outcome' = ThrownOutcome(result.err)
  /\ storeAtCall' = store
  /\ UNCHANGED store
  /\ UNCHANGED <<signupVars, validateVars>>

\* line 22: doc.save() resolves with the saved document
DocSaveOk ==
  /\ dbPc = "save"
  /\ LET id == NewId(Len(store) + 1) IN
       /\ store' = Append(store, Doc(call.resolved, id))
       /\ outcome' = ReturnedOutcome(<<id>>)
  /\ dbPc' = "returned"
  /\ UNCHANGED <<call, storeAtCall>>
  /\ UNCHANGED <<signupVars, validateVars>>

\* lines 23-26: doc.save() rejects; the error is logged and thrown again
DocSaveFail ==
  /\ dbPc = "save"
  /\ outcome' = ThrownOutcome(Err("SaveError", <<>>, <<>>))
  /\ dbPc' = "thrown"
  /\ UNCHANGED <<store, call, storeAtCall>>
  /\ UNCHANGED <<signupVars, validateVars>>

\* ------------------------------------------------------------------ createManyDocs

DocSamples == {ObjV(<<"email">>), ObjV(<<"_id", "email">>), ObjV(<<>>)}

DataArrInputs == SeqsUpTo(DocSamples, MaxBatch)

\* lines 84-92: the name is normalized outside the try block (a non-string name
\* has no trim method); inside it the operations are mapped one per element and
\* bulkWrite is called on dataModels[modelName], undefined for an unknown name
CreateManyDocsCall(modelName, dataArr) ==
  /\ dbPc = "idle"
  /\ Len(store) + Len(dataArr) <= MaxDocs
  /\ LET isString == TypeOf(modelName) = "string"
         name == IF isString THEN capitalize(trim(modelName.s)) ELSE <<>>
     IN
       /\ call' = [op |-> "createManyDocs", modelName |-> modelName,
                   data |-> UndefDataV, dataArr |-> dataArr,
                   resolved |-> IF isString /\ HasModel(name) THEN name ELSE <<>>]
       /\ IF isString /\ HasModel(name)
            THEN dbPc' = "bulk" /\ outcome' = NoOutcome
            ELSE dbPc' = "thrown"
                 /\ outcome' = ThrownOutcome(Err("TypeError", <<>>, <<>>))
  /\ storeAtCall' = store
  /\ UNCHANGED store
  /\ UNCHANGED <<signupVars, validateVars>>

bulkOperations == call.dataArr

BulkValid ==
  \A i \in 1..Len(bulkOperations) : ModelValidate(call.resolved, bulkOperations[i])

RECURSIVE InsertAll(_, _, _)
InsertAll(st, name, n) ==
  IF n = 0 THEN st
  ELSE InsertAll(Append(st, Doc(name, NewId(Len(st) + 1))), name, n - 1)

\* Object.values(result.insertedIds).map(id => id.toString()): one identifier
\* per inserted operation, in operation order
InsertedIds(before, n) == [i \in 1..n |-> NewId(Len(before) + i)]

\* lines 92-94: the batch insert succeeds
BulkWriteOk ==
  /\ dbPc = "bulk"
  /\ BulkValid
  /\ LET n == Len(bulkOperations) IN
       /\ store' = InsertAll(store, call.resolved, n)
       /\ outcome' = ReturnedOutcome(InsertedIds(store, n))
  /\ dbPc' = "returned"
  /\ UNCHANGED <<call, storeAtCall>>
  /\ UNCHANGED <<signupVars, validateVars>>

\* BulkWriteFail with a catch block that returns the identifiers written so far
BulkWriteFailReturnsPartial ==
  /\ dbPc = "bulk"
  /\ \E written \in 0..Len(bulkOperations) :
       /\ written < Len(bulkOperations) \/ Len(bulkOperations) = 0
       /\ BulkValid \/ written = 0
       /\ store' = InsertAll(store, call.resolved, written)
       /\ outcome' = ReturnedOutcome(InsertedIds(store, written))
  /\ dbPc' = "returned"
  /\ UNCHANGED <<call, storeAtCall>>
  /\ UNCHANGED <<signupVars, validateVars>>

\* lines 95-98: the batch insert fails. A document the schema rejects fails the
\* batch before anything is sent; a storage failure at the k-th operation of the
\* (ordered) batch leaves the operations before it written. Either way the error
\* is logged and thrown again.
BulkWriteFail ==
  /\ dbPc = "bulk"
  /\ \E written \in 0..Len(bulkOperations) :
       /\ written < Len(bulkOperations) \/ Len(bulkOperations) = 0
       /\ BulkValid \/ written = 0
       /\ store' = InsertAll(store, call.resolved, written)
       /\ outcome' = ThrownOutcome(
            Err(IF BulkValid THEN "BulkWriteError" ELSE "ValidationError", <<>>, <<>>))
  /\ dbPc' = "thrown"
  /\ UNCHANGED <<call, storeAtCall>>
  /\ UNCHANGED <<signupVars, validateVars>>

\* the promise an exported function returned has settled and its caller goes
\* on; the next call is made from there
CallSettled ==
  /\ CallFinished
  /\ dbPc' = "idle"
  /\ call' = NoCall
  /\ outcome' = NoOutcome
  /\ storeAtCall' = store
  /\ UNCHANGED store
  /\ UNCHANGED <<signupVars, validateVars>>

\* ------------------------------------------------------------------ signup form

Letters == {"a", "b", "c", "d", "f", "n", "o", "p", "r", "s", "w", "A", "B"}
Digits == {"1", "9"}

EmailA == <<"a", "@", "b", ".", "c", "o">>
EmailASpaced == <<" ">> \o EmailA \o <<" ">>
EmailC == <<"c", "@", "b", ".", "c", "o">>
NotAnEmail == <<"a", "b", ".", "c", "o">>
Password8 == <<"p", "a", "s", "s", "w", "o", "r", "d">>
Password9 == Password8 \o <<"9">>
PasswordShort == <<"p", "w">>
TermsOn == <<"o", "n">>
TermsOff == <<"o", "f", "f">>

\* the parsed value of the phone field's text, or "invalid" for text that is no JSON
JsonV(j, number, dialCode) == [j |-> j, number |-> number, dialCode |-> dialCode]
PhoneText(json) == [t |-> "string", json |-> json]
PhoneAbsent == [t |-> "undefined", json |-> JsonV("invalid", UndefV, UndefV)]

Form(email, password, confirmPassword, firstname, lastname, acceptTerms, phone) ==
  [email |-> email, password |-> password, confirmPassword |-> confirmPassword,
   firstname |-> firstname, lastname |-> lastname, acceptTerms |-> acceptTerms,
   phone |-> phone]

\* ------------------------------------------------------------------ zod

Issue(path, message) == [path |-> path, message |-> message]

Parsed(status, value, issues) == [status |-> status, value |-> value, issues |-> issues]

\* a value of the wrong type: the parse of the field is aborted
InvalidType(path) == Parsed("aborted", UndefV, <<Issue(path, "Required")>>)

\* a string check adds its issue and marks the result dirty; later checks still run
Checked(value, issues) ==
  Parsed(IF issues = <<>> THEN "valid" ELSE "dirty", StrV(value), issues)

IssueIf(cond, path, message) == IF cond THEN <<Issue(path, message)>> ELSE <<>>

Contains(s, sub) ==
  \E i \in 1..(Len(s) - Len(sub) + 1) : SubSeq(s, i, i + Len(sub) - 1) = sub

LastIndexOf(s, c) ==
  IF c \in Range(s) THEN CHOOSE i \in 1..Len(s) :
                            s[i] = c /\ \A j \in (i + 1)..Len(s) : s[j] # c
  ELSE 0

\* zod's email pattern: one "@"; a local part that neither starts nor ends with
\* "." and has no ".."; a domain of dot-separated labels ending in two or more letters
IsEmail(s) ==
  /\ Cardinality({i \in 1..Len(s) : s[i] = "@"}) = 1
  /\ LET at == LastIndexOf(s, "@")
         local == SubSeq(s, 1, at - 1)
         domain == SubSeq(s, at + 1, Len(s))
         dot == LastIndexOf(domain, ".")
     IN /\ local # <<>>
        /\ Range(local) \subseteq (Letters \cup Digits \cup {"."})
        /\ local[1] # "." /\ local[Len(local)] # "."
        /\ ~Contains(s, <<".", ".">>)
        /\ dot > 1
        /\ domain[1] \in (Letters \cup Digits)
        /\ Range(domain) \subseteq (Letters \cup Digits \cup {"."})
        /\ Len(domain) - dot >= 2
        /\ Range(SubSeq(domain, dot + 1, Len(domain))) \subseteq Letters

\* line 113: z.string().trim().min(1, ...).email(...)
parseEmail(v) ==
  IF TypeOf(v) # "string" THEN InvalidType("email")
  ELSE LET s == trim(v.s) IN
    Checked(s, IssueIf(Len(s) < 1, "email", "Email is required")
               \o IssueIf(~IsEmail(s), "email", "Invalid email address"))

\* line 114: z.string().min(8, ...)
parsePassword(v) ==
  IF TypeOf(v) # "string" THEN InvalidType("password")
  ELSE Checked(v.s, IssueIf(Len(v.s) < 8, "password",
                            "Password must be at least 8 characters"))

\* line 115: z.string().min(1, ...)
parseConfirmPassword(v) ==
  IF TypeOf(v) # "string" THEN InvalidType("confirmPassword")
  ELSE Checked(v.s, IssueIf(Len(v.s) < 1, "confirmPassword",
                            "Confirm password is required"))

\* lines 116-117: z.string().trim().min(1, ...)
parseName(path, message, v) ==
  IF TypeOf(v) # "string" THEN InvalidType(path)
  ELSE LET s == trim(v.s) IN Checked(s, IssueIf(Len(s) < 1, path, message))

\* line 118: z.string().regex(/on/, ...): the pattern is not anchored
parseAcceptTerms(v) ==
  IF TypeOf(v) # "string" THEN InvalidType("acceptTerms")
  ELSE Checked(v.s, IssueIf(~Contains(v.s, <<"o", "n">>), "acceptTerms",
                            "You must accept the terms and conditions"))

\* Boolean(v) of a decoded JSON member
Truthy(v) == (v.t = "number") \/ (v.t = "string" /\ v.s # <<>>)

PhoneV(t, number, dialCode) == [t |-> t, number |-> number, dialCode |-> dialCode]
PhoneUndefined == PhoneV("undefined", UndefV, UndefV)

\* isValidJSON of ../utils: whether JSON.parse accepts the text
isValidJSON(val) == val.t = "string" /\ val.json.j # "invalid"

\* lines 106-109, 122-131: phoneSchema is reached through the transform. Object.values(null) throws a TypeError, which
\* zod does not catch; Object.values of a number is empty; a JSON string or an
\* object with a truthy member is passed on.
phoneTransformThrows(val) == isValidJSON(val) /\ val.json.j = "null"

phoneTransform(val) ==
  IF ~isValidJSON(val) THEN PhoneUndefined
  ELSE LET p == val.json IN
    CASE p.j = "object" ->
           IF Truthy(p.number) \/ Truthy(p.dialCode)
             THEN PhoneV("object", p.number, p.dialCode) ELSE PhoneUndefined
      [] p.j = "string" -> PhoneV("string", UndefV, UndefV)
      [] OTHER -> PhoneUndefined

IsDigits(s) == s # <<>> /\ Range(s) \subseteq Digits

\* line 107: number: z.string().trim().regex(/^\d+$/, ...)
parsePhoneNumber(v) ==
  IF TypeOf(v) # "string" THEN InvalidType("phone")
  ELSE Checked(trim(v.s),
               IssueIf(~IsDigits(trim(v.s)), "phone",
                       "Invalid phone number. Only numbers are allowed"))

\* line 108: dialCode: z.string().trim().min(1, ...)
parseDialCode(v) ==
  IF TypeOf(v) # "string" THEN InvalidType("phone")
  ELSE Checked(trim(v.s), IssueIf(Len(trim(v.s)) < 1, "phone", "Dial code is required"))

StatusOf(statuses) ==
  IF "aborted" \in statuses THEN "aborted"
  ELSE IF "dirty" \in statuses THEN "dirty" ELSE "valid"

PhoneParsed(status, value, issues) ==
  [status |-> status, value |-> value, issues |-> issues]

mergePhone(number, dialCode) ==
  PhoneParsed(StatusOf({number.status, dialCode.status}),
              PhoneV("object", number.value, dialCode.value),
              number.issues \o dialCode.issues)

\* line 132: .pipe(phoneSchema.optional())
pipePhone(phone) ==
  CASE phone.t = "undefined" -> PhoneParsed("valid", PhoneUndefined, <<>>)
    [] phone.t = "string" ->
         PhoneParsed("aborted", PhoneUndefined,
                     <<Issue("phone", "Expected object, received string")>>)
    [] OTHER ->
         mergePhone(parsePhoneNumber(phone.number), parseDialCode(phone.dialCode))

\* lines 119-132: z.string().optional().transform(...).pipe(...)
parsePhone(val) == pipePhone(phoneTransform(val))

\* ParseStatus.mergeObjectSync: the object is aborted when a field is, dirty
\* when a field is dirty; the issues are in the order the fields were parsed
mergeObject(email, password, confirmPassword, firstname, lastname, acceptTerms, phone) ==
  [status |-> StatusOf({email.status, password.status, confirmPassword.status,
                        firstname.status, lastname.status, acceptTerms.status,
                        phone.status}),
   value |-> [email |-> email.value, password |-> password.value,
              confirmPassword |-> confirmPassword.value,
              firstname |-> firstname.value, lastname |-> lastname.value,
              acceptTerms |-> acceptTerms.value, phone |-> phone.value],
   issues |-> email.issues \o password.issues \o confirmPassword.issues
              \o firstname.issues \o lastname.issues \o acceptTerms.issues
              \o phone.issues]

\* lines 111-133: z.object({...}): every field is parsed, in declaration order
parseObject(formData) ==
  mergeObject(parseEmail(formData.email),
              parsePassword(formData.password),
              parseConfirmPassword(formData.confirmPassword),
              parseName("firstname", "First name is required", formData.firstname),
              parseName("lastname", "Last name is required", formData.lastname),
              parseAcceptTerms(formData.acceptTerms),
              parsePhone(formData.phone))

\* lines 134-137: .refine(...): the refinement is not run on an aborted object
refine(inner) ==
  IF inner.status = "aborted" THEN inner
  ELSE IF inner.value.password = inner.value.confirmPassword THEN inner
  ELSE [inner EXCEPT !.status = "dirty",
                     !.issues = @ \o <<Issue("confirmPassword", "Passwords do not match")>>]

signupSchema(formData) == refine(parseObject(formData))

NoErrors == [k \in {} |-> ""]

NoData ==
  [email |-> UndefV, password |-> UndefV, confirmPassword |-> UndefV,
   firstname |-> UndefV, lastname |-> UndefV, acceptTerms |-> UndefV,
   phone |-> PhoneUndefined]

\* lines 143-146: errors[issue.path[0]] = issue.message, a later issue of the
\* same field replacing an earlier one
ErrorsOf(issues) ==
  [k \in {issues[i].path : i \in 1..Len(issues)} |->
     LET last == CHOOSE i \in 1..Len(issues) :
                   /\ issues[i].path = k
                   /\ \A j \in (i + 1)..Len(issues) : issues[j].path # k
     IN issues[last].message]

\* lines 142-150: the issues become the error mapping
validationResult(result) ==
  IF result.issues # <<>>
    THEN [threw |-> FALSE, success |-> FALSE,
          error |-> ErrorsOf(result.issues), data |-> NoData]
    ELSE [threw |-> FALSE, success |-> TRUE, error |-> NoErrors, data |-> result.value]

\* lines 139-151: safeParse returns a result unless the phone transform throws
validateSignupFormData(formData) ==
  IF phoneTransformThrows(formData.phone)
    THEN [threw |-> TRUE, success |-> FALSE, error |-> NoErrors, data |-> NoData]
    ELSE validationResult(signupSchema(formData))

\* ------------------------------------------------------------------ signUpAction

Runs == {"r1", "r2"}

ValidForm(email) ==
  Form(StrV(email), StrV(Password8), StrV(Password8), StrV(<<"A", "b">>),
       StrV(<<"B">>), StrV(TermsOn), PhoneAbsent)

\* the submissions the runs make
SignupForms ==
  { ValidForm(EmailA),
    ValidForm(EmailASpaced),
    ValidForm(EmailC),
    [ValidForm(EmailA) EXCEPT !.confirmPassword = StrV(Password9)],
    [ValidForm(EmailA) EXCEPT !.phone = PhoneText(JsonV("null", UndefV, UndefV))] }

Result(threw, success, error, message) ==
  [threw |-> threw, success |-> success, error |-> error, message |-> message]

NoResult == Result(FALSE, FALSE, NoErrors, "")
Success == Result(FALSE, TRUE, NoErrors, "User created successfully")
ValidationFailure(errors) == Result(FALSE, FALSE, errors, "")
DuplicateFailure == Result(FALSE, FALSE, "email" :> "User already exists", "")
GenericFailure == Result(FALSE, FALSE, NoErrors, "Something went wrong, try again")
\* the promise signUpAction returned is rejected: the exception left the action
Uncaught == Result(TRUE, FALSE, NoErrors, "")

NoForm == Form(UndefV, UndefV, UndefV, UndefV, UndefV, UndefV, PhoneAbsent)

IdleRun ==
  [pc |-> "idle", form |-> NoForm, data |-> NoData, isUserExist |-> "unset",
   userId |-> 0, result |-> NoResult, effects |-> <<>>, failedAt |-> "none"]

\* bcrypt.hash(password, 10): a one-way digest, never the plaintext
Hash(password) == StrV(<<"$", "2", "b", "$">> \o password.s)

Throw(r, result, step) ==
  runs' = [runs EXCEPT ![r].pc = "done", ![r].result = result, ![r].failedAt = step]

Effect(r, step, next) ==
  [runs EXCEPT ![r].pc = next, ![r].effects = Append(@, step)]

\* lines 45-54: the submission is validated synchronously; a failure is returned
\* as it is, an exception thrown while parsing leaves the action; otherwise
\* User.exists is awaited
SubmitResult(r, form, signUpValidation) ==
  IF signUpValidation.threw
    THEN [runs EXCEPT ![r].pc = "done", ![r].form = form,
                      ![r].result = Uncaught, ![r].failedAt = "validate"]
  ELSE IF ~signUpValidation.success
    THEN [runs EXCEPT ![r].pc = "done", ![r].form = form,
                      ![r].result = ValidationFailure(signUpValidation.error)]
  ELSE [runs EXCEPT ![r].pc = "exists", ![r].form = form,
                    ![r].data = signUpValidation.data]

Submit(r, form) ==
  /\ runs[r].pc = "idle"
  /\ runs' = SubmitResult(r, form, validateSignupFormData(form))
  /\ UNCHANGED <<users, accounts, analytics, emails>>
  /\ UNCHANGED <<dbVars, validateVars>>

\* User.exists({ email }): whether the user collection holds the email
UserExists(email) == \E i \in 1..Len(users) : users[i].email = email

\* ExistsResolve without the return of lines 56-58
ExistsResolveGoesOn(r) ==
  /\ runs[r].pc = "exists"
  /\ runs' = [runs EXCEPT ![r].pc = "hash",
                          ![r].isUserExist =
                            IF UserExists(runs[r].data.email) THEN "found" ELSE "absent"]
  /\ UNCHANGED <<users, accounts, analytics, emails>>
  /\ UNCHANGED <<dbVars, validateVars>>

\* lines 52-61: the query answers; a found user ends the run with the email
\* error, otherwise bcrypt.hash is awaited
ExistsResolve(r) ==
  /\ runs[r].pc = "exists"
  /\ IF UserExists(runs[r].data.email)
       THEN runs' = [runs EXCEPT ![r].pc = "done", ![r].isUserExist = "found",
                                 ![r].result = DuplicateFailure]
       ELSE runs' = [runs EXCEPT ![r].pc = "hash", ![r].isUserExist = "absent"]
  /\ UNCHANGED <<users, accounts, analytics, emails>>
  /\ UNCHANGED <<dbVars, validateVars>>

\* line 52 is outside the try block: a rejected query leaves the action
ExistsReject(r) ==
  /\ runs[r].pc = "exists"
  /\ Throw(r, Uncaught, "exists")
  /\ UNCHANGED <<users, accounts, analytics, emails>>
  /\ UNCHANGED <<dbVars, validateVars>>

\* HashResolve with the createAnalytics call of line 66 left out
HashResolveSkipsAnalytics(r) ==
  /\ runs[r].pc = "hash"
  /\ runs' = [Effect(r, "hash", "createUser")
                EXCEPT ![r].data.password = Hash(runs[r].data.password)]
  /\ UNCHANGED <<users, accounts, analytics, emails>>
  /\ UNCHANGED <<dbVars, validateVars>>

\* lines 61-66: the hash replaces data.password, the try block is entered and
\* createAnalytics is awaited
HashResolve(r) ==
  /\ runs[r].pc = "hash"
  /\ runs' = [Effect(r, "hash", "createAnalytics")
                EXCEPT ![r].data.password = Hash(runs[r].data.password)]
  /\ UNCHANGED <<users, accounts, analytics, emails>>
  /\ UNCHANGED <<dbVars, validateVars>>

\* line 61 is outside the try block: a rejected hash leaves the action
HashReject(r) ==
  /\ runs[r].pc = "hash"
  /\ Throw(r, Uncaught, "hash")
  /\ UNCHANGED <<users, accounts, analytics, emails>>
  /\ UNCHANGED <<dbVars, validateVars>>

\* line 66: createAnalytics creates the counters document if there is none
CreateAnalyticsResolve(r) ==
  /\ runs[r].pc = "createAnalytics"
  /\ analytics' = [analytics EXCEPT !.exists = TRUE]
  /\ runs' = Effect(r, "createAnalytics", "createUser")
  /\ UNCHANGED <<users, accounts, emails>>
  /\ UNCHANGED <<dbVars, validateVars>>

\* the user collection takes one record per email: a second one is rejected
createUserAccepts(email) == ~UserExists(email)

\* createUser given the submitted email instead of the validated one
CreateUserEmailRaw(r) == runs[r].form.email

\* the email createUser is given: line 71, data.email
CreateUserEmail(r) == runs[r].data.email

\* lines 68-73: createUser resolves with the new record, whose _id is kept
CreateUserResolve(r) ==
  /\ runs[r].pc = "createUser"
  /\ createUserAccepts(CreateUserEmail(r))
  /\ LET userId == Len(users) + 1 IN
       /\ users' = Append(users, [_id |-> userId, email |-> CreateUserEmail(r),
                                  firstName |-> runs[r].data.firstname,
                                  lastName |-> runs[r].data.lastname])
       /\ runs' = [Effect(r, "createUser", "createAccount") EXCEPT ![r].userId = userId]
  /\ UNCHANGED <<accounts, analytics, emails>>
  /\ UNCHANGED <<dbVars, validateVars>>

\* lines 75-81: the credentials account of that user
CreateAccountResolve(r) ==
  /\ runs[r].pc = "createAccount"
  /\ accounts' = Append(accounts,
       [userId |-> runs[r].userId, provider |-> "credentials",
        providerAccountId |-> runs[r].userId, type |-> "credentials",
        password |-> runs[r].data.password])
  /\ runs' = Effect(r, "createAccount", "incrementAnalytics")
  /\ UNCHANGED <<users, analytics, emails>>
  /\ UNCHANGED <<dbVars, validateVars>>

\* lines 83-95: the counter is incremented, the email is rendered and sendEmail
\* is awaited
IncrementResolve(r) ==
  /\ runs[r].pc = "incrementAnalytics"
  /\ analytics' = [analytics EXCEPT !.totalUsersSignedUp = @ + 1]
  /\ runs' = Effect(r, "incrementAnalytics", "sendEmail")
  /\ UNCHANGED <<users, accounts, emails>>
  /\ UNCHANGED <<dbVars, validateVars>>

\* lines 91-97: the email is sent and the success result returned
SendEmailResolve(r) ==
  /\ runs[r].pc = "sendEmail"
  /\ emails' = Append(emails, runs[r].data.email)
  /\ runs' = [Effect(r, "sendEmail", "done") EXCEPT ![r].result = Success]
  /\ UNCHANGED <<users, accounts, analytics>>
  /\ UNCHANGED <<dbVars, validateVars>>

TrySteps ==
  {"createAnalytics", "createUser", "createAccount", "incrementAnalytics", "sendEmail"}

\* a catch block that deletes the user record the run created
CatchRollsBack(r, step) ==
  /\ Throw(r, GenericFailure, step)
  /\ users' = SelectSeq(users, LAMBDA u : u._id # runs[r].userId)
  /\ UNCHANGED <<accounts, analytics, emails>>

\* lines 98-101: what the catch block does to the stores and returns
Catch(r, step) ==
  /\ Throw(r, GenericFailure, step)
  /\ UNCHANGED <<users, accounts, analytics, emails>>

\* an awaited call of the try block rejects
StepReject(r) ==
  /\ runs[r].pc \in TrySteps
  /\ Catch(r, runs[r].pc)
  /\ UNCHANGED <<dbVars, validateVars>>

\* lines 83-89, 98-101: the counter is incremented and rendering the email throws
RenderThrows(r) ==
  /\ runs[r].pc = "incrementAnalytics"
  /\ analytics' = [analytics EXCEPT !.totalUsersSignedUp = @ + 1]
  /\ runs' = [Effect(r, "incrementAnalytics", "done")
                EXCEPT ![r].result = GenericFailure, ![r].failedAt = "render"]
  /\ UNCHANGED <<users, accounts, emails>>
  /\ UNCHANGED <<dbVars, validateVars>>

\* ------------------------------------------------------------------ validateSignupFormData alone

\* the submissions validateSignupFormData is applied to. A field that is not
\* submitted (an unchecked acceptTerms box, no email) is undefined. The phone
\* text "null", on which the transform throws, is among SignupForms.
EmailInputs ==
  {UndefV, StrV(<<>>), StrV(EmailA), StrV(EmailASpaced), StrV(NotAnEmail)}
PasswordInputs == {StrV(PasswordShort), StrV(Password8), StrV(Password9)}
ConfirmInputs == {StrV(<<>>), StrV(Password8), StrV(Password9)}
FirstnameInputs == {StrV(<<" ">>), StrV(<<"A", "b">>)}
LastnameInputs == {StrV(<<>>), StrV(<<"B">>)}
TermsInputs == {UndefV, StrV(TermsOn), StrV(TermsOff)}
MemberInputs == {UndefV, NumV, StrV(<<>>), StrV(<<"1", "9">>), StrV(<<"a">>)}
PhoneInputs ==
  {PhoneAbsent}
  \cup {PhoneText(JsonV(j, UndefV, UndefV)) : j \in {"invalid", "number", "string"}}
  \cup {PhoneText(JsonV("object", n, d)) :
          n \in MemberInputs, d \in {UndefV, StrV(<<>>), StrV(<<"9">>)}}

FormInputs ==
  {Form(e, p, c, f, l, a, ph) :
     e \in EmailInputs, p \in PasswordInputs, c \in ConfirmInputs,
     f \in FirstnameInputs, l \in LastnameInputs, a \in TermsInputs,
     ph \in PhoneInputs}

NoValidation == [threw |-> FALSE, success |-> FALSE, error |-> NoErrors, data |-> NoData]

ValidateCall(formData) ==
  /\ ~vDone
  /\ vForm' = formData
  /\ vDone' = TRUE
  /\ vResult' = validateSignupFormData(formData)
  /\ UNCHANGED <<dbVars, signupVars>>

\* ------------------------------------------------------------------ specifications

Init ==
  /\ store = <<>>
  /\ call = NoCall
  /\ dbPc = "idle"
  /\ outcome = NoOutcome
  /\ storeAtCall = <<>>
  /\ users = <<>>
  /\ accounts = <<>>
  /\ analytics = [exists |-> FALSE, totalUsersSignedUp |-> 0]
  /\ emails = <<>>
  /\ runs = [r \in Runs |-> IdleRun]
  /\ vForm = NoForm
  /\ vDone = FALSE
  /\ vResult = NoValidation

NextDB ==
  \/ \E modelName \in ModelNameInputs, data \in DataInputs :
       CreateOneDocCall(modelName, data)
  \/ DocSaveOk
  \/ DocSaveFail
  \/ \E modelName \in ModelNameInputs, dataArr \in DataArrInputs :
       CreateManyDocsCall(modelName, dataArr)
  \/ BulkWriteOk
  \/ BulkWriteFail
  \/ CallSettled

NextSignup ==
  \E r \in Runs :
    \/ \E form \in SignupForms : Submit(r, form)
    \/ ExistsResolve(r)
    \/ ExistsReject(r)
    \/ HashResolve(r)
    \/ HashReject(r)
    \/ CreateAnalyticsResolve(r)
    \/ CreateUserResolve(r)
    \/ CreateAccountResolve(r)
    \/ IncrementResolve(r)
    \/ RenderThrows(r)
    \/ SendEmailResolve(r)
    \/ StepReject(r)

NextValidate == ~vDone /\ \E formData \in FormInputs : ValidateCall(formData)

\* the document-creation helpers
SpecDB == Init /\ [][NextDB]_vars

\* concurrent runs of the signup action
SpecSignup == Init /\ [][NextSignup]_vars

\* validateSignupFormData applied to every submission of FormInputs
SpecValidate == Init /\ [][NextValidate]_vars

\* ------------------------------------------------------------------ claims: document creation

IsMapping(data) == data.t = "object"

NameResolves(modelName) ==
  /\ modelName.t = "string"
  /\ trim(modelName.s) # <<>>
  /\ HasModel(<<toUpperCase(Head(trim(modelName.s)))>> \o Tail(trim(modelName.s)))

ModelOf(modelName) ==
  <<toUpperCase(Head(trim(modelName.s)))>> \o Tail(trim(modelName.s))

UnexpectedKeys(modelName, data) ==
  {k \in Range(data.keys) : k \notin (Range(dataModels[ModelOf(modelName)].obj) \cup {"_id"})}

CallFailedUnwritten == dbPc = "thrown" /\ outcome.kind = "thrown" /\ store = storeAtCall

\* C1: a createOneDoc call whose data has a key that is neither a schema field of
\* the resolved model nor "_id" fails with the unexpected-fields error, which
\* lists exactly those keys, and the store is what it was when the call was made
C1_ExtraKeysRejected ==
  ( /\ call.op = "createOneDoc"
    /\ NameResolves(call.modelName)
    /\ IsMapping(call.data)
    /\ UnexpectedKeys(call.modelName, call.data) # {} )
  => /\ CallFailedUnwritten
     /\ outcome.err.kind = "KeysNotAllowed"
     /\ Range(outcome.err.extra) = UnexpectedKeys(call.modelName, call.data)

C1_Witness ==
  /\ call.op = "createOneDoc"
  /\ outcome.err.kind = "KeysNotAllowed"
  /\ outcome.err.extra = <<"y">>
  /\ "email" \in Range(call.data.keys)
  /\ Len(store) = 1

toLowerCase(c) ==
  CASE c = "A" -> "a"
    [] c = "B" -> "b"
    [] OTHER -> c

Lowered(s) == [i \in 1..Len(s) |-> toLowerCase(s[i])]

\* the names differ only in letter case or in leading/trailing whitespace
DifferInCaseOrWhitespace(s1, s2) == Lowered(trim(s1)) = Lowered(trim(s2))

\* the names differ only in the case of the first letter or in leading/trailing
\* whitespace
DifferInFirstLetterOrWhitespace(s1, s2) ==
  LET a == trim(s1)
      b == trim(s2)
  IN \/ a = <<>> /\ b = <<>>
     \/ /\ a # <<>> /\ b # <<>>
        /\ toLowerCase(Head(a)) = toLowerCase(Head(b))
        /\ Tail(a) = Tail(b)

\* the model the operation selects for a name, <<>> when it fails before selecting
SelectedModel(op, s, data) ==
  IF op = "createOneDoc"
    THEN LET r == validatorOneDoc(StrV(s), data) IN
           IF r.ok THEN r.modelName ELSE <<>>
    ELSE LET n == capitalize(trim(s)) IN IF HasModel(n) THEN n ELSE <<>>

AllNames == SeqsUpTo(NameChars, MaxNameLen)

UnresolvableFails ==
  (call.op # "none" /\ call.modelName.t = "string" /\ ~NameResolves(call.modelName))
  => CallFailedUnwritten

\* C5 as stated: every name that differs from the call's only in letter case or
\* in leading/trailing whitespace selects the model the call selected (or fails
\* as it did), and a name that resolves to no model makes the call fail
C5_CaseInsensitive ==
  /\ (call.op # "none" /\ call.modelName.t = "string")
     => \A s2 \in AllNames :
          DifferInCaseOrWhitespace(call.modelName.s, s2)
          => SelectedModel(call.op, s2, call.data) = call.resolved
  /\ UnresolvableFails

\* C5 amended: every name that differs from the call's only in the case of its
\* first letter or in leading/trailing whitespace selects the model the call
\* selected (or fails as it did), and a name that resolves to no model, the
\* empty and the all-whitespace name included, makes the call fail with the
\* store unwritten
C5_FirstLetterInsensitive ==
  /\ (call.op # "none" /\ call.modelName.t = "string")
     => \A s2 \in AllNames :
          DifferInFirstLetterOrWhitespace(call.modelName.s, s2)
          => SelectedModel(call.op, s2, call.data) = call.resolved
  /\ UnresolvableFails

C5_Witness ==
  /\ call.op = "createManyDocs"
  /\ call.modelName.s = <<" ", "a">>
  /\ call.resolved = <<"A">>
  /\ dbPc = "returned"
  /\ Len(store) > Len(storeAtCall)

\* C6: a createManyDocs call that returns gives one identifier per element of
\* dataArr, those of the documents the batch appended, in order; a call whose
\* batch insert fails throws and gives no identifiers
C6_OneIdPerDocument ==
  call.op = "createManyDocs"
  => /\ dbPc = "returned"
        => /\ outcome.kind = "returned"
           /\ Len(outcome.ids) = Len(call.dataArr)
           /\ Len(store) = Len(storeAtCall) + Len(call.dataArr)
           /\ \A i \in 1..Len(outcome.ids) :
                store[Len(storeAtCall) + i]._id = outcome.ids[i]
     /\ dbPc = "thrown" => outcome.kind = "thrown" /\ outcome.ids = <<>>

C6_Witness ==
  /\ call.op = "createManyDocs"
  /\ dbPc = "returned"
  /\ Len(call.dataArr) = 2
  /\ Len(outcome.ids) = 2

TypeMismatchKinds == {"NotString", "NotObject"}

\* C7 as stated: whatever the entity name, a createOneDoc call whose name is not
\* a string or whose record is not a mapping fails with the type-mismatch error
C7_TypeMismatchFirst ==
  (call.op = "createOneDoc" /\ (call.modelName.t # "string" \/ ~IsMapping(call.data)))
  => CallFailedUnwritten /\ outcome.err.kind \in TypeMismatchKinds

\* C7 amended: the name is checked before the record. A name that is not a
\* string fails with the type mismatch; a record that is not a mapping fails
\* with the type mismatch when the name resolves to a model; a string name that
\* resolves to no model fails as an unknown model whatever the record, and an
\* empty or all-whitespace name with a TypeError
C7_NameCheckedFirst ==
  call.op = "createOneDoc"
  => /\ call.modelName.t # "string"
        => CallFailedUnwritten /\ outcome.err.kind = "NotString"
     /\ (NameResolves(call.modelName) /\ ~IsMapping(call.data))
        => CallFailedUnwritten /\ outcome.err.kind = "NotObject"
     /\ (call.modelName.t = "string" /\ ~NameResolves(call.modelName))
        => /\ CallFailedUnwritten
           /\ outcome.err.kind =
                IF trim(call.modelName.s) = <<>> THEN "TypeError" ELSE "NotValidModel"

C7_Witness ==
  /\ call.op = "createOneDoc"
  /\ NameResolves(call.modelName)
  /\ call.data.t = "null"
  /\ outcome.err.kind = "NotObject"

\* ------------------------------------------------------------------ claims: signup

Done(r) == runs[r].pc = "done"

SideEffectSteps == TrySteps \cup {"hash", "render"}

\* C2 as stated: a run in which a step of the side-effect sequence failed
\* (password hashing included) ends with the generic failure result
C2_SideEffectFailureIsGeneric ==
  \A r \in Runs :
    (Done(r) /\ runs[r].failedAt \in SideEffectSteps) => runs[r].result = GenericFailure

\* C3: a run whose existence query found the email ends with the duplicate
\* failure on the email field and has performed no side effect
C3_DuplicateHasNoEffects ==
  \A r \in Runs :
    runs[r].isUserExist = "found"
    => /\ Done(r)
       /\ runs[r].result = DuplicateFailure
       /\ runs[r].effects = <<>>
       /\ runs[r].userId = 0
       /\ runs[r].data.password = runs[r].form.password

C3_Witness ==
  \E r \in Runs :
    /\ runs[r].isUserExist = "found"
    /\ runs[r].result = DuplicateFailure
    /\ Len(users) = 1

\* C4 as stated: a submission whose password differs from its confirmPassword
\* gets a failure whose error mapping has the key confirmPassword
C4_MismatchReported ==
  (vDone /\ vForm.password # vForm.confirmPassword)
  => /\ ~vResult.threw
     /\ ~vResult.success
     /\ "confirmPassword" \in DOMAIN vResult.error

Did(r, step) == step \in Range(runs[r].effects)

\* C8: nothing is compensated. Every effect a run applied is in the stores
\* whatever happened to the run afterwards, the collections and the counter hold
\* exactly what the runs added, and a run that failed after a step of its had
\* completed ends with the generic failure
C8_NoCompensation ==
  /\ \A r \in Runs :
       /\ runs[r].userId # 0 => \E i \in 1..Len(users) : users[i]._id = runs[r].userId
       /\ Did(r, "createAccount")
          => \E i \in 1..Len(accounts) : accounts[i].userId = runs[r].userId
       /\ Did(r, "createAnalytics") => analytics.exists
       /\ (Done(r) /\ runs[r].failedAt # "none" /\ runs[r].effects # <<>>)
          => runs[r].result = GenericFailure
  /\ Len(users) = Cardinality({r \in Runs : Did(r, "createUser")})
  /\ Len(accounts) = Cardinality({r \in Runs : Did(r, "createAccount")})
  /\ Len(emails) = Cardinality({r \in Runs : Did(r, "sendEmail")})
  /\ analytics.totalUsersSignedUp = Cardinality({r \in Runs : Did(r, "incrementAnalytics")})

C8_Witness ==
  \E r \in Runs :
    /\ Done(r)
    /\ runs[r].failedAt = "createAccount"
    /\ runs[r].result = GenericFailure
    /\ runs[r].userId # 0
    /\ \E i \in 1..Len(users) : users[i]._id = runs[r].userId
    /\ accounts = <<>>

IsPrefix(a, b) == Len(a) <= Len(b) /\ a = SubSeq(b, 1, Len(a))

ClaimedOrder ==
  <<"createAnalytics", "hash", "createUser", "createAccount", "incrementAnalytics",
    "sendEmail">>

CodeOrder ==
  <<"hash", "createAnalytics", "createUser", "createAccount", "incrementAnalytics",
    "sendEmail">>

AccountLinked(r) ==
  Did(r, "createAccount")
  => \E i \in 1..Len(accounts) :
       /\ accounts[i].userId = runs[r].userId
       /\ accounts[i].providerAccountId = runs[r].userId
       /\ runs[r].userId # 0

\* C9 as stated: the analytics counters are created before the password is hashed
C9_AnalyticsThenHash ==
  \A r \in Runs :
    /\ IsPrefix(runs[r].effects, ClaimedOrder)
    /\ runs[r].result = Success => runs[r].effects = ClaimedOrder

\* C9 amended: after validation and the duplicate check pass, a run performs its
\* side effects in the order hash, analytics creation, user record, account
\* record linked to that user, counter increment, welcome email, each after the
\* one before it completed, and returns Success only after the email was sent
C9_HashThenAnalytics ==
  \A r \in Runs :
    /\ IsPrefix(runs[r].effects, CodeOrder)
    /\ runs[r].effects # <<>> => runs[r].isUserExist = "absent"
    /\ AccountLinked(r)
    /\ runs[r].result = Success => runs[r].effects = CodeOrder

C9_Witness ==
  \E r \in Runs : runs[r].result = Success /\ runs[r].effects = CodeOrder

SameEmail(r1, r2) ==
  /\ runs[r1].data.email.t = "string"
  /\ runs[r1].data.email = runs[r2].data.email

UsersWith(email) == {i \in 1..Len(users) : trim(users[i].email.s) = email.s}

====
